---- MODULE Spec2Model ----
(***************************************************************************)
(* Model of the authenticated, auto-paginating access layer of the        *)
(* Polaris client (polaris-api/src/client.rs, common.rs, auth.rs).         *)
(*                                                                         *)
(* Two parts share the JWT cache:                                          *)
(*   - the auto-pagination loop of list_all_projects / list_all_branches / *)
(*     list_all_issues, run by one caller against a server whose answers   *)
(*     are chosen freely (Spec) or computed from a fixed collection        *)
(*     (SpecSrv);                                                          *)
(*   - get_jwt / authenticate run by concurrent tasks over the             *)
(*     Arc<RwLock<Option<String>>> cache (SpecCache).                      *)
(*                                                                         *)
(* Option<T> is modelled as a sequence of length <= 1: None == <<>>,       *)
(* Some(x) == <<x>>.                                                       *)
(***************************************************************************)
EXTENDS Integers, Sequences, FiniteSets, TLC

\* ---------------------------------------------------------------- bounds
\* Largest page_size a caller passes (0 included: it is a legal u32).
MaxPageSize == 2
\* Page fetches one run may issue before the model stops following it.
MaxFetches == 3
\* Largest total a page's meta may report.
MaxTotal == 3
\* Side-loaded resources the server sends over one run, all pages together.
MaxIncluded == 2
\* Largest collection the fixed-collection server holds.
MaxItems == 7
\* Concurrent callers of one client.
MaxTasks == 2
\* get_jwt / authenticate calls made on one client, all callers together.
MaxCalls == 3
\* Longest JSON array in a response body.
MaxArrayLen == 2
\* Longest `included` handed to build_included_map.
MaxMapInput == 3
\* Largest value of the unsigned integers of a meta (u64::MAX, scaled down).
MaxU64 == 3
\* Calls made on one client where every call is followed to its return.
MaxFairCalls == 2
\* Largest value of the offset of a run (u32::MAX, scaled down).
MaxU32 == 3

\* ---------------------------------------------------------------- Option
None == <<>>
Some(x) == <<x>>
IsSome(o) == o # <<>>
Unwrap(o) == o[1]

\* ---------------------------------------------------------------- state
VARIABLES
  jwt,          \* PolarisClient.jwt: Option<String>, the cached credential
  exchanges,    \* number of authentication exchanges sent so far
  pc,           \* position of the list_all_* call
  op,           \* which list_all_* operation is running
  page_size,    \* its page_size argument
  all_data,     \* local all_data
  all_included, \* local all_included
  offset,       \* local offset
  total,        \* local total: Option<u64>
  fetches,      \* log of the page requests sent: <<offset, limit>>
  pages,        \* log of the page envelopes received
  result,       \* Option of what the call returned
  fault,        \* Option of the error the failed exchange or fetch produced
  server,       \* None, or Some(N) for a server holding N items
  task,         \* per concurrent caller: its get_jwt / authenticate call
  rdHolders,    \* callers holding a read guard of the RwLock
  wrHolder,     \* Option of the caller holding the write guard
  calls,        \* get_jwt / authenticate calls started so far
  anyOk,        \* some get_jwt call has returned Ok
  anyFail,      \* some authentication exchange has failed
  lastWritten,  \* Option of the credential of the latest store into the cache
  input,        \* Option of the input of the latest function application
  output        \* Option of what it returned

pvars == <<pc, op, page_size, all_data, all_included, offset, total,
           fetches, pages, result, fault, server>>
cvars == <<task, rdHolders, wrHolder, calls, anyOk, anyFail, lastWritten>>
fvars == <<input, output>>
vars == <<jwt, exchanges, pvars, cvars, fvars>>

Tasks == 1..MaxTasks

Ops == {"list_all_projects", "list_all_branches", "list_all_issues"}

\* ---------------------------------------------------------------- errors
\* PolarisError values; status is 0 where the variant carries none.
HttpError == [kind |-> "Http", status |-> 0]
DeserializeError == [kind |-> "Deserialize", status |-> 0]
ApiError(s) == [kind |-> "Api", status |-> s]
NotFoundError == [kind |-> "NotFound", status |-> 404]
AuthFailedError(s) == [kind |-> "AuthFailed", status |-> s]

\* Non-success statuses the server answers with.
ErrorStatuses == {404, 500}

\* CommonClient::check_response on a non-success status (projects, branches).
CommonCheckResponseErr(s) == ApiError(s)

\* client.rs check_response on a non-success status (issues and the rest).
CheckResponseErr(s) == IF s = 404 THEN NotFoundError ELSE ApiError(s)

\* What one page fetch of operation o can fail with.
PageErrors(o) ==
  {HttpError, DeserializeError} \cup
  { IF o = "list_all_issues" THEN CheckResponseErr(s) ELSE CommonCheckResponseErr(s)
      : s \in ErrorStatuses }

\* What a resource request made with a credential can fail with.
ResourceErrors == {HttpError, DeserializeError, ApiError(401), NotFoundError}

\* AuthClient::authenticate_with_token failures.
AuthErrors == {HttpError, DeserializeError, AuthFailedError(401)}

\* ---------------------------------------------------------------- pages
\* The merge never inspects a resource, so the k-th page's items are
\* labelled by where they came from: all items of a run are distinct.
PageData(k, n) == [i \in 1..n |-> <<"d", k, i>>]
PageIncluded(k, n) == [i \in 1..n |-> <<"inc", k, i>>]

\* meta: None, or Some(PaginationMeta). The server echoes offset and limit.
Metas(off, lim) ==
  {None} \cup
  { Some([offset |-> Some(off), limit |-> Some(lim), total |-> t])
      : t \in {None} \cup { Some(n) : n \in 0..MaxTotal } }

\* Page envelopes an arbitrary server may answer the k-th request with: up
\* to lim + 1 items (one more than asked for), up to room side-loaded
\* resources, any meta.
Envelopes(k, off, lim, room) ==
  { [data |-> PageData(k, n), included |-> PageIncluded(k, m), meta |-> mt]
      : n \in 0..(lim + 1), m \in 0..room, mt \in Metas(off, lim) }

RECURSIVE CountIncluded(_)
\* Side-loaded resources in the page log ps.
CountIncluded(ps) ==
  IF ps = <<>> THEN 0 ELSE Len(ps[1].included) + CountIncluded(Tail(ps))

Min(a, b) == IF a < b THEN a ELSE b

\* The page a server holding the items 1..n, in that order, answers with.
ServerPage(n, off, lim) ==
  [data |-> [i \in 1..(IF off < n THEN Min(off + lim, n) - off ELSE 0) |-> off + i],
   included |-> <<>>,
   meta |-> Some([offset |-> Some(off), limit |-> Some(lim), total |-> Some(n)])]

\* ---------------------------------------------------------------- loop body
\* TrackTotal gone wrong: the page's meta is never read.
TrackTotalNever(tot, resp) == tot

\* total after `if let Some(ref meta) = resp.meta { total = meta.total; }`
TrackTotal(tot, resp) ==
  IF IsSome(resp.meta) THEN Unwrap(resp.meta).total ELSE tot

\* ExtendData gone wrong: the page is put in front of the items gathered.
ExtendDataFront(acc, resp) == resp.data \o acc

\* ExtendData gone wrong: a page is cut to page_size items.
ExtendDataTruncated(acc, resp) ==
  acc \o SubSeq(resp.data, 1, Min(Len(resp.data), page_size))

\* all_data.extend(resp.data)
ExtendData(acc, resp) == acc \o resp.data

\* all_included.extend(resp.included); list_all_branches keeps no included
ExtendIncluded(o, acc, resp) ==
  IF o = "list_all_branches" THEN acc ELSE acc \o resp.included

\* ShortPage gone wrong: <= for <, a full page counts as short.
ShortPageLe(resp, ps) == Len(resp.data) <= ps

\* ShortPage gone wrong: a short page never ends the run.
ShortPageNever(resp, ps) == FALSE

\* `if count < page_size as usize { break; }`
ShortPage(resp, ps) == Len(resp.data) < ps

\* TotalReached gone wrong: > for >=, one fetch too many at offset = total.
TotalReachedGt(off, tot) == IsSome(tot) /\ off > Unwrap(tot)

\* `if let Some(t) = total { if offset as u64 >= t { break; } }`
TotalReached(off, tot) == IsSome(tot) /\ off >= Unwrap(tot)

\* Merged gone wrong: the limit of the run is put into the meta.
MergedWithLimit(o, data, incl, tot) ==
  [ok |-> TRUE,
   data |-> data,
   included |-> IF o = "list_all_branches" THEN <<>> ELSE incl,
   meta |-> IF IsSome(tot)
            THEN Some([offset |-> Some(0), limit |-> Some(page_size), total |-> tot])
            ELSE None]

\* The envelope built after the loop.
Merged(o, data, incl, tot) ==
  [ok |-> TRUE,
   data |-> data,
   included |-> IF o = "list_all_branches" THEN <<>> ELSE incl,
   meta |-> IF IsSome(tot)
            THEN Some([offset |-> Some(0), limit |-> None, total |-> tot])
            ELSE None]

Failure(e) == [ok |-> FALSE, err |-> e]

\* Propagate gone wrong: the error is re-wrapped as PolarisError::Other.
PropagateWrapped(e) == [kind |-> "Other", status |-> 0]

\* `?` on a Result<_, PolarisError>: the error is returned as it is.
Propagate(e) == e

\* ---------------------------------------------------------------- cache
\* CacheHit gone wrong: the cached credential is never used.
CacheHitNever(cur) == FALSE

\* `if let Some(ref j) = *jwt` in get_jwt.
CacheHit(cur) == IsSome(cur)

\* Stored gone wrong: the new credential is not written to the cache.
StoredNothing(cur, new) == cur

\* Stored gone wrong: a credential already in the cache is kept.
StoredFirstWins(cur, new) == IF IsSome(cur) THEN cur ELSE Some(new)

\* `*self.jwt.write().await = Some(jwt.clone())` in authenticate.
Stored(cur, new) == Some(new)

\* AfterFailedExchange gone wrong: an empty credential is cached on failure.
AfterFailedExchangeEmptyJwt(cur) == Some(0)

\* AfterFailedExchange gone wrong: a failed exchange clears the cache.
AfterFailedExchangeCleared(cur) == None

\* The cache after `authenticate_with_token(..).await?` returned an error.
AfterFailedExchange(cur) == cur

\* tokio RwLock: a read guard is granted while no write guard is held.
CanRead(rd, wr) == wr = None

\* CanWrite gone wrong: the write guard is granted at once.
CanWriteAlways(rd, wr) == TRUE

\* tokio RwLock: the write guard is granted while no guard is held.
CanWrite(rd, wr) == rd = {} /\ wr = None

OkJwt(j) == [ok |-> TRUE, jwt |-> j]

\* A caller that is not inside a call.
IdleTask ==
  [pc |-> "idle", op |-> "none", ex |-> 0, jwt |-> 0, seen |-> <<>>, nex |-> 0,
   ret |-> None, afterOk |-> FALSE, afterFail |-> FALSE]

\* ---------------------------------------------------------------- actions
Init ==
  /\ jwt = None
  /\ exchanges = 0
  /\ pc = "idle"
  /\ op = "list_all_projects"
  /\ page_size = 0
  /\ all_data = <<>>
  /\ all_included = <<>>
  /\ offset = 0
  /\ total = None
  /\ fetches = <<>>
  /\ pages = <<>>
  /\ result = None
  /\ fault = None
  /\ server = None
  /\ task = [t \in Tasks |-> IdleTask]
  /\ rdHolders = {}
  /\ wrHolder = None
  /\ calls = 0
  /\ anyOk = FALSE
  /\ anyFail = FALSE
  /\ lastWritten = None
  /\ input = None
  /\ output = None

\* Entry of list_all_*: the locals are initialised.
Enter(o, ps, srv) ==
  /\ pc = "idle"
  /\ pc' = "loop"
  /\ op' = o
  /\ page_size' = ps
  /\ all_data' = <<>>
  /\ all_included' = <<>>
  /\ offset' = 0
  /\ total' = None
  /\ server' = srv
  /\ UNCHANGED <<jwt, exchanges, fetches, pages, result, fault, cvars, fvars>>

\* A call against a server that answers freely.
Call == \E o \in Ops, ps \in 0..MaxPageSize : Enter(o, ps, None)

\* SendPage gone wrong: the offset sent is the number of items received.
SendPageByCount == fetches' = Append(fetches, <<Len(all_data), page_size>>)

\* The request of list_projects / list_branches / list_issues goes out.
SendPage == fetches' = Append(fetches, <<offset, page_size>>)

\* Top of the loop: list_*(.., page_size, offset) asks get_jwt for the
\* credential; a cached one is used at once, otherwise authenticate() sends
\* the exchange first.
ListPage ==
  /\ pc = "loop"
  /\ Len(fetches) < MaxFetches
  /\ IF CacheHit(jwt)
       THEN /\ SendPage
            /\ pc' = "await_page"
            /\ UNCHANGED exchanges
       ELSE /\ exchanges' = exchanges + 1
            /\ pc' = "await_auth"
            /\ UNCHANGED fetches
  /\ UNCHANGED <<jwt, op, page_size, all_data, all_included, offset, total,
                 pages, result, fault, server, cvars, fvars>>

\* The exchange succeeded: authenticate() caches the JWT, the request goes out.
AuthOk ==
  /\ pc = "await_auth"
  /\ jwt' = Stored(jwt, exchanges)
  /\ SendPage
  /\ pc' = "await_page"
  /\ UNCHANGED <<exchanges, op, page_size, all_data, all_included, offset,
                 total, pages, result, fault, server, cvars, fvars>>

\* The exchange failed: `?` returns the error from list_* and from list_all_*.
AuthFail ==
  /\ pc = "await_auth"
  /\ \E e \in AuthErrors :
       /\ fault' = Some(e)
       /\ result' = Some(Failure(Propagate(e)))
  /\ pc' = "failed"
  /\ jwt' = AfterFailedExchange(jwt)
  /\ UNCHANGED <<exchanges, op, page_size, all_data, all_included,
                 offset, total, fetches, pages, server, cvars, fvars>>

\* One pass of the loop body on the page resp. offset is a u32; within the
\* bounds it stays below MaxFetches * MaxPageSize, far from wrapping.
MergePage(resp) ==
  LET tot == TrackTotal(total, resp)
      data == ExtendData(all_data, resp)
      incl == ExtendIncluded(op, all_included, resp)
      off == offset + page_size
      stop == ShortPage(resp, page_size) \/ TotalReached(off, tot)
  IN /\ pages' = Append(pages, resp)
     /\ total' = tot
     /\ all_data' = data
     /\ all_included' = incl
     /\ offset' = IF ShortPage(resp, page_size) THEN offset ELSE off
     /\ pc' = IF stop THEN "done" ELSE "loop"
     /\ result' = IF stop THEN Some(Merged(op, data, incl, tot)) ELSE result
     /\ UNCHANGED <<jwt, exchanges, op, page_size, fetches, fault, server, cvars, fvars>>

\* The page arrives from a server that answers freely.
PageOk ==
  /\ pc = "await_page"
  /\ server = None
  /\ \E resp \in Envelopes(Len(fetches), offset, page_size,
                            MaxIncluded - CountIncluded(pages)) :
        MergePage(resp)

\* The page fetch fails: `?` returns the error, the locals are dropped.
PageErr ==
  /\ pc = "await_page"
  /\ \E e \in PageErrors(op) :
       /\ fault' = Some(e)
       /\ result' = Some(Failure(Propagate(e)))
  /\ pc' = "failed"
  /\ UNCHANGED <<jwt, exchanges, op, page_size, all_data, all_included,
                 offset, total, fetches, pages, server, cvars, fvars>>

Next == Call \/ ListPage \/ AuthOk \/ AuthFail \/ PageOk \/ PageErr

Spec == Init /\ [][Next]_vars

\* ---------------------------------------------------------------- fixed server
\* A call against a server that holds n items and pages through them.
CallSrv ==
  \E o \in Ops, ps \in 0..MaxPageSize, n \in 0..MaxItems : Enter(o, ps, Some(n))

\* The page arrives from the fixed-collection server.
SrvPageOk ==
  /\ pc = "await_page"
  /\ IsSome(server)
  /\ MergePage(ServerPage(Unwrap(server), offset, page_size))

NextSrv == CallSrv \/ ListPage \/ AuthOk \/ AuthFail \/ SrvPageOk \/ PageErr

SpecSrv == Init /\ [][NextSrv]_vars

\* ---------------------------------------------------------------- concurrent cache
\* A caller starts get_jwt: it asks for the read guard.
CallGetJwt(t) ==
  /\ task[t].pc \in {"idle", "done"}
  /\ calls < MaxCalls
  /\ calls' = calls + 1
  /\ task' = [task EXCEPT ![t] =
       [IdleTask EXCEPT !.pc = "gj_read", !.op = "get_jwt",
                        !.afterOk = anyOk, !.afterFail = anyFail]]
  /\ UNCHANGED <<jwt, exchanges, rdHolders, wrHolder, anyOk, anyFail, lastWritten, pvars, fvars>>

\* `self.jwt.read().await` returns the read guard.
AcquireRead(t) ==
  /\ task[t].pc = "gj_read"
  /\ CanRead(rdHolders, wrHolder)
  /\ rdHolders' = rdHolders \cup {t}
  /\ task' = [task EXCEPT ![t].pc = "gj_check"]
  /\ UNCHANGED <<jwt, exchanges, wrHolder, calls, anyOk, anyFail, lastWritten, pvars, fvars>>

\* get_jwt finds a credential: it returns a clone and drops the guard.
ReadCached(t) ==
  /\ task[t].pc = "gj_check"
  /\ CacheHit(jwt)
  /\ rdHolders' = rdHolders \ {t}
  /\ task' = [task EXCEPT ![t].pc = "done", ![t].seen = <<jwt>>,
                           ![t].ret = Some(OkJwt(Unwrap(jwt)))]
  /\ anyOk' = TRUE
  /\ UNCHANGED <<jwt, exchanges, wrHolder, calls, anyFail, lastWritten, pvars, fvars>>

\* ReadEmpty gone wrong: the read guard is kept across authenticate().
ReadEmptyKeepsGuard(t) ==
  /\ task[t].pc = "gj_check"
  /\ ~CacheHit(jwt)
  /\ exchanges' = exchanges + 1
  /\ task' = [task EXCEPT ![t].pc = "auth_send", ![t].seen = <<jwt>>,
                           ![t].ex = exchanges + 1, ![t].nex = @ + 1]
  /\ UNCHANGED <<jwt, rdHolders, wrHolder, calls, anyOk, anyFail, lastWritten,
                 pvars, fvars>>

\* get_jwt finds no credential: the guard is dropped at the end of the
\* block and authenticate() sends the exchange.
ReadEmpty(t) ==
  /\ task[t].pc = "gj_check"
  /\ ~CacheHit(jwt)
  /\ rdHolders' = rdHolders \ {t}
  /\ exchanges' = exchanges + 1
  /\ task' = [task EXCEPT ![t].pc = "auth_send", ![t].seen = <<jwt>>,
                           ![t].ex = exchanges + 1, ![t].nex = @ + 1]
  /\ UNCHANGED <<jwt, wrHolder, calls, anyOk, anyFail, lastWritten, pvars, fvars>>

\* A caller calls authenticate() itself: the exchange is sent at once.
CallAuthenticate(t) ==
  /\ task[t].pc \in {"idle", "done"}
  /\ calls < MaxCalls
  /\ calls' = calls + 1
  /\ exchanges' = exchanges + 1
  /\ task' = [task EXCEPT ![t] =
       [IdleTask EXCEPT !.pc = "auth_send", !.op = "authenticate",
                        !.ex = exchanges + 1, !.nex = 1,
                        !.afterOk = anyOk, !.afterFail = anyFail]]
  /\ UNCHANGED <<jwt, rdHolders, wrHolder, anyOk, anyFail, lastWritten, pvars, fvars>>

\* authenticate_with_token returns Ok(jwt): authenticate() asks for the
\* write guard. Every exchange yields a credential of its own.
ExchangeOk(t) ==
  /\ task[t].pc = "auth_send"
  /\ task' = [task EXCEPT ![t].pc = "auth_write", ![t].jwt = task[t].ex]
  /\ UNCHANGED <<jwt, exchanges, rdHolders, wrHolder, calls, anyOk, anyFail,
                 lastWritten, pvars, fvars>>

\* authenticate_with_token returns Err: `?` returns it from authenticate()
\* and so from get_jwt.
ExchangeFail(t) ==
  /\ task[t].pc = "auth_send"
  /\ \E e \in AuthErrors :
       task' = [task EXCEPT ![t].pc = "done", ![t].ret = Some(Failure(e))]
  /\ jwt' = AfterFailedExchange(jwt)
  /\ anyFail' = TRUE
  /\ UNCHANGED <<exchanges, rdHolders, wrHolder, calls, anyOk, lastWritten, pvars, fvars>>

\* `self.jwt.write().await` returns the write guard.
AcquireWrite(t) ==
  /\ task[t].pc = "auth_write"
  /\ CanWrite(rdHolders, wrHolder)
  /\ wrHolder' = Some(t)
  /\ task' = [task EXCEPT ![t].pc = "auth_store"]
  /\ UNCHANGED <<jwt, exchanges, rdHolders, calls, anyOk, anyFail, lastWritten, pvars, fvars>>

\* The credential is stored, the guard dropped, Ok(jwt) returned.
StoreJwt(t) ==
  /\ task[t].pc = "auth_store"
  /\ jwt' = Stored(jwt, task[t].jwt)
  /\ wrHolder' = None
  /\ task' = [task EXCEPT ![t].pc = "done",
                           ![t].ret = Some(OkJwt(task[t].jwt))]
  /\ anyOk' = (anyOk \/ task[t].op = "get_jwt")
  /\ lastWritten' = Some(task[t].jwt)
  /\ UNCHANGED <<exchanges, rdHolders, calls, anyFail, pvars, fvars>>

\* A resource method (list_projects, get_issue, ...) whose get_jwt returned
\* Ok sends its request with the credential and returns the outcome; the
\* cache is not touched, whatever the outcome.
ResourceResponse(t) ==
  /\ task[t].pc = "done"
  /\ task[t].op = "get_jwt"
  /\ Unwrap(task[t].ret).ok
  /\ \E r \in {task[t].ret} \cup {Some(Failure(e)) : e \in ResourceErrors} :
       task' = [task EXCEPT ![t].op = "request", ![t].ret = r]
  /\ UNCHANGED <<jwt, exchanges, rdHolders, wrHolder, calls, anyOk, anyFail,
                 lastWritten, pvars, fvars>>

NextCache ==
  \E t \in Tasks :
    \/ CallGetJwt(t)
    \/ AcquireRead(t)
    \/ ReadCached(t)
    \/ ReadEmpty(t)
    \/ CallAuthenticate(t)
    \/ ExchangeOk(t)
    \/ ExchangeFail(t)
    \/ AcquireWrite(t)
    \/ StoreJwt(t)
    \/ ResourceResponse(t)

SpecCache == Init /\ [][NextCache]_vars

\* A step of the call t is in: the runtime polls every task that can go on,
\* the RwLock serves its waiters in turn, and every exchange is answered.
Proceed(t) ==
  \/ ReadCached(t)
  \/ ReadEmpty(t)
  \/ ExchangeOk(t)
  \/ ExchangeFail(t)
  \/ StoreJwt(t)

Fairness ==
  \A t \in Tasks :
    /\ WF_vars(Proceed(t))
    /\ SF_vars(AcquireRead(t))
    /\ SF_vars(AcquireWrite(t))

\* The callers and their calls, without the requests that follow get_jwt.
NextCacheFair ==
  \E t \in Tasks :
    \/ calls < MaxFairCalls /\ CallGetJwt(t)
    \/ calls < MaxFairCalls /\ CallAuthenticate(t)
    \/ AcquireRead(t)
    \/ AcquireWrite(t)
    \/ Proceed(t)

SpecCacheFair == Init /\ [][NextCacheFair]_vars /\ Fairness

\* ---------------------------------------------------------------- auth exchange
\* JSON values of a body: strings and one number.
Str(x) == <<"str", x>>
Num == <<"num", "0">>
JsonVals == {Str("j1"), Str("j2"), Num}
FieldNames == {"jwt", "expires_in"}
EmptyObj == [n \in {} |-> Num]

\* Response bodies: text that is not JSON, a JSON object, a JSON array.
TextBody(x) == [kind |-> "text", text |-> x, obj |-> EmptyObj, arr |-> <<>>]
ObjectBody(f) == [kind |-> "object", text |-> "", obj |-> f, arr |-> <<>>]
ArrayBody(a) == [kind |-> "array", text |-> "", obj |-> EmptyObj, arr |-> a]
Bodies ==
  {TextBody(x) : x \in {"", "Unauthorized"}}
    \cup {ObjectBody(f) : f \in UNION {[D -> JsonVals] : D \in SUBSET FieldNames}}
    \cup {ArrayBody(a) : a \in UNION {[1..n -> JsonVals] : n \in 0..MaxArrayLen}}

AuthStatuses == {199, 200, 204, 299, 300, 401, 404, 500}

\* What `send()` yields: an error before any response, or a response with a
\* status and a body, which may fail to come through when read.
SendFailed ==
  [sent |-> FALSE, status |-> 0, readable |-> FALSE, body |-> TextBody("")]
AuthResponses ==
  {SendFailed}
    \cup [sent : {TRUE}, status : AuthStatuses, readable : BOOLEAN, body : Bodies]

\* StatusCode::is_success.
IsSuccess(status) == status >= 200 /\ status <= 299

\* `resp.text().await.unwrap_or_default()`.
TextOrDefault(resp) == IF resp.readable THEN resp.body ELSE TextBody("")

\* AuthFailedMessage gone wrong: the body is left out of the message.
AuthFailedMessageNoBody(status, body) == <<"HTTP ", status, ": ", TextBody("")>>

\* `format!("HTTP {status}: {body}")`.
AuthFailedMessage(status, body) == <<"HTTP ", status, ": ", body>>

\* PolarisError::AuthFailed(message).
AuthFailed(msg) == [kind |-> "AuthFailed", status |-> msg[2], msg |-> msg]

\* ParseAuthenticateResponse gone wrong: unknown fields are ignored.
ParseIgnoringUnknown(resp) ==
  IF resp.readable /\ resp.body.kind = "object"
       /\ "jwt" \in DOMAIN resp.body.obj /\ resp.body.obj["jwt"][1] = "str"
    THEN Some(resp.body.obj["jwt"][2])
    ELSE None

\* `resp.json::<AuthenticateResponse>()`: the derived Deserialize of a struct
\* with the one field jwt: String and deny_unknown_fields, fed by serde_json,
\* which reads a struct from a JSON object or from a JSON array of its fields
\* in order. The String of the field, or None on any error.
ParseAuthenticateResponse(resp) ==
  IF ~resp.readable THEN None
  ELSE IF resp.body.kind = "object"
    THEN IF DOMAIN resp.body.obj = {"jwt"} /\ resp.body.obj["jwt"][1] = "str"
           THEN Some(resp.body.obj["jwt"][2])
           ELSE None
  ELSE IF resp.body.kind = "array"
    THEN IF Len(resp.body.arr) = 1 /\ resp.body.arr[1][1] = "str"
           THEN Some(resp.body.arr[1][2])
           ELSE None
  ELSE None

\* AuthClient::authenticate_with_token on the outcome resp of the POST.
AuthenticateWithToken(resp) ==
  IF ~resp.sent THEN Failure(HttpError)
  ELSE IF ~IsSuccess(resp.status)
    THEN Failure(AuthFailed(AuthFailedMessage(resp.status, TextOrDefault(resp))))
  ELSE IF IsSome(ParseAuthenticateResponse(resp))
    THEN OkJwt(Unwrap(ParseAuthenticateResponse(resp)))
  ELSE Failure(DeserializeError)

\* PolarisClient::authenticate with the server answering resp: the result of
\* the exchange is returned, after the credential was stored when it is Ok.
Authenticate(resp) ==
  /\ exchanges < MaxCalls
  /\ exchanges' = exchanges + 1
  /\ input' = Some(resp)
  /\ output' = Some(AuthenticateWithToken(resp))
  /\ jwt' = IF AuthenticateWithToken(resp).ok
              THEN Stored(jwt, AuthenticateWithToken(resp).jwt)
              ELSE AfterFailedExchange(jwt)
  /\ lastWritten' = IF AuthenticateWithToken(resp).ok
                      THEN Some(AuthenticateWithToken(resp).jwt)
                      ELSE lastWritten
  /\ UNCHANGED <<pvars, task, rdHolders, wrHolder, calls, anyOk, anyFail>>

NextAuth == \E resp \in AuthResponses : Authenticate(resp)

SpecAuth == Init /\ [][NextAuth]_vars

\* ---------------------------------------------------------------- included index
\* Strings are sequences of characters, so that format! is concatenation.
\* serde_json::Value: a string, a value of another scalar type, an object.
NoFields == [n \in {} |-> 0]
JStr(x) == [t |-> "str", s |-> x, f |-> NoFields]
JNum == [t |-> "num", s |-> <<>>, f |-> NoFields]
JObj(fields) == [t |-> "obj", s |-> <<>>, f |-> fields]

\* The object with the members given as <<name, value>> pairs.
Members(pairs) ==
  [n \in {p[1] : p \in pairs} |-> (CHOOSE p \in pairs : p[1] = n)[2]]

\* A member named n for the value of the Option o, none for None.
Member(n, o) == {<<n, o[i]>> : i \in 1..Len(o)}

\* Value::get(name): the member of an object, None for anything else.
Get(v, name) ==
  IF v.t = "obj" /\ name \in DOMAIN v.f THEN Some(v.f[name]) ELSE None

\* AsStr gone wrong: a value that is no string counts as the empty string.
AsStrLoose(v) == Some(v.s)

\* Value::as_str.
AsStr(v) == IF v.t = "str" THEN Some(v.s) ELSE None

RECURSIVE Pointer(_, _)
\* Value::pointer with the path split at '/' into its tokens.
Pointer(v, path) ==
  IF path = <<>> THEN Some(v)
  ELSE IF IsSome(Get(v, Head(path)))
    THEN Pointer(Unwrap(Get(v, Head(path))), Tail(path))
    ELSE None

\* `format!("{t}:{id}")`.
Key(t, id) == t \o <<":">> \o id

\* HashMap::insert.
InsertKey(map, k, v) ==
  [x \in DOMAIN map \cup {k} |-> IF x = k THEN v ELSE map[x]]

\* The body of the loop of build_included_map for one element.
InsertIncluded(map, inc) ==
  LET t == IF IsSome(Get(inc, "type")) THEN AsStr(Unwrap(Get(inc, "type"))) ELSE None
      id == IF IsSome(Get(inc, "id")) THEN AsStr(Unwrap(Get(inc, "id"))) ELSE None
  IN IF IsSome(t) /\ IsSome(id)
       THEN InsertKey(map, Key(Unwrap(t), Unwrap(id)), inc)
       ELSE map

RECURSIVE build_included_map(_)
build_included_map(included) ==
  IF included = <<>> THEN [x \in {} |-> JNum]
  ELSE InsertIncluded(build_included_map(SubSeq(included, 1, Len(included) - 1)),
                      included[Len(included)])

Fallback == <<"-">>

resolve_included(relationships, rel_path, type_prefix, included_map) ==
  LET id == IF IsSome(relationships) THEN Pointer(Unwrap(relationships), rel_path) ELSE None
      ids == IF IsSome(id) THEN AsStr(Unwrap(id)) ELSE None
      inc == IF IsSome(ids) /\ Key(type_prefix, Unwrap(ids)) \in DOMAIN included_map
               THEN Some(included_map[Key(type_prefix, Unwrap(ids))])
               ELSE None
      name == IF IsSome(inc) THEN Pointer(Unwrap(inc), <<"attributes", "name">>) ELSE None
      names == IF IsSome(name) THEN AsStr(Unwrap(name)) ELSE None
  IN IF IsSome(names) THEN Unwrap(names) ELSE Fallback

\* Types, ids and names of resources; ':' is a character like any other.
Types == {<<"t">>, <<"t", ":">>}
Ids == {<<"5">>, <<":", "5">>}
Names == {<<"L">>, <<"H">>}

\* An included resource with the type, id and attributes given as Options.
Resource(t, id, attrs) ==
  JObj(Members(Member("type", t) \cup Member("id", id) \cup Member("attributes", attrs)))
Named(name) == JObj(Members(Member("name", name)))

\* Included resources: complete ones, and ones without attributes, with a
\* name that is no string, without a type, with an id that is no string.
IncludedResources ==
  {Resource(Some(JStr(t)), Some(JStr(i)), Some(Named(Some(JStr(n))))) :
     t \in Types, i \in Ids, n \in Names}
    \cup {Resource(Some(JStr(<<"t">>)), Some(JStr(<<"5">>)), a) :
            a \in {None, Some(Named(Some(JNum)))}}
    \cup {Resource(None, Some(JStr(<<"5">>)), Some(Named(Some(JStr(<<"L">>))))),
          Resource(Some(JStr(<<"t">>)), Some(JNum), Some(Named(Some(JStr(<<"L">>)))))}

RelPath == <<"severity", "data", "id">>

\* issue.relationships: absent, not an object, or an object in which the
\* path ends early, at a value that is no string, or at an id.
RelationshipsOf(idv) ==
  Some(JObj(Members({<<"severity",
         JObj(Members({<<"data", JObj(Members(Member("id", idv)))>>}))>>})))
Relationships ==
  {None, Some(JNum), Some(JObj(NoFields)),
   Some(JObj(Members({<<"severity", JObj(NoFields)>>}))),
   RelationshipsOf(None), RelationshipsOf(Some(JNum))}
    \cup {RelationshipsOf(Some(JStr(i))) : i \in Ids}

ResolveInputs ==
  [included : UNION {[1..n -> IncludedResources] : n \in 0..MaxMapInput},
   relationships : Relationships,
   type_prefix : Types]

\* The issues listing: the index is built from resp.included and the related
\* name of an issue resolved against it.
Resolve(in) ==
  /\ input' = Some(in)
  /\ output' = Some([index |-> build_included_map(in.included),
                      name |-> resolve_included(in.relationships, RelPath,
                                 in.type_prefix, build_included_map(in.included))])
  /\ UNCHANGED <<jwt, exchanges, pvars, cvars>>

\* One listing is printed per run of the program.
NextResolve == input = None /\ \E in \in ResolveInputs : Resolve(in)

SpecResolve == Init /\ [][NextResolve]_vars

\* ---------------------------------------------------------------- resource endpoints
\* The methods of PolarisClient that send one request to a resource endpoint.
Endpoints ==
  {"list_projects", "list_branches", "list_issues", "get_issue",
   "get_events_with_source", "get_source_code", "get_triage", "update_triage",
   "get_triage_history"}

\* What `send()` yields for a resource request: an error before any
\* response, or a response with a status and a body that may fail to come
\* through and may or may not have the shape the method expects.
EndpointResponses ==
  {[sent |-> FALSE, status |-> 0, readable |-> FALSE, shaped |-> FALSE]}
    \cup [sent : {TRUE}, status : AuthStatuses, readable : BOOLEAN, shaped : BOOLEAN]

\* The status check the method ep applies to a non-success status s:
\* CommonClient::check_response for projects and branches, the inline check
\* of get_source_code, check_response of client.rs for the others.
StatusErr(ep, s) ==
  IF ep \in {"list_projects", "list_branches"} THEN CommonCheckResponseErr(s)
  ELSE IF ep = "get_source_code" THEN ApiError(s)
  ELSE CheckResponseErr(s)

\* What the method ep returns when its request is answered with resp.
EndpointResult(ep, resp) ==
  IF ~resp.sent THEN Failure(HttpError)
  ELSE IF ~IsSuccess(resp.status) THEN Failure(StatusErr(ep, resp.status))
  ELSE IF ep = "get_source_code"
    THEN IF resp.readable THEN [ok |-> TRUE] ELSE Failure(HttpError)
  ELSE IF resp.readable /\ resp.shaped THEN [ok |-> TRUE]
  ELSE Failure(DeserializeError)

\* A call of the method ep is answered with resp.
Request(ep, resp) ==
  /\ input' = Some([ep |-> ep, resp |-> resp])
  /\ output' = Some(EndpointResult(ep, resp))
  /\ UNCHANGED <<jwt, exchanges, pvars, cvars>>

NextEndpoint == \E ep \in Endpoints, resp \in EndpointResponses : Request(ep, resp)

SpecEndpoint == Init /\ [][NextEndpoint]_vars

\* ---------------------------------------------------------------- page meta
\* PaginationMeta of an envelope handed to has_more / next_offset: every
\* field an Option<u64>.
U64 == 0..MaxU64
OptU64 == {None} \cup {Some(n) : n \in U64}
EnvelopeMetas ==
  {None} \cup {Some(m) : m \in [offset : OptU64, limit : OptU64, total : OptU64]}

\* How the crate was built: with overflow checks (dev profile) or without
\* (release profile).
Builds == {"debug", "release"}

Returned(v) == [panic |-> FALSE, value |-> <<v>>]
Panicked == [panic |-> TRUE, value |-> <<>>]

\* `offset + limit` on u64: the sum, or beyond u64::MAX a panic in a build
\* with overflow checks and the sum modulo 2^64 in a build without.
AddU64(a, b, build) ==
  IF a + b <= MaxU64 THEN Returned(a + b)
  ELSE IF build = "debug" THEN Panicked
  ELSE Returned((a + b) % (MaxU64 + 1))

\* `if let (Some(offset), Some(limit), Some(total)) = (..)`.
AllPresent(meta) ==
  /\ IsSome(meta)
  /\ IsSome(Unwrap(meta).offset) /\ IsSome(Unwrap(meta).limit)
  /\ IsSome(Unwrap(meta).total)

\* JsonApiResponse::has_more.
has_more(meta, build) ==
  IF AllPresent(meta)
    THEN LET sum == AddU64(Unwrap(Unwrap(meta).offset), Unwrap(Unwrap(meta).limit), build)
         IN IF sum.panic THEN Panicked
            ELSE Returned(Unwrap(sum.value) < Unwrap(Unwrap(meta).total))
    ELSE Returned(FALSE)

\* JsonApiResponse::next_offset.
next_offset(meta, build) ==
  IF AllPresent(meta)
    THEN LET next == AddU64(Unwrap(Unwrap(meta).offset), Unwrap(Unwrap(meta).limit), build)
         IN IF next.panic THEN Panicked
            ELSE IF Unwrap(next.value) < Unwrap(Unwrap(meta).total)
              THEN Returned(Some(Unwrap(next.value)))
              ELSE Returned(None)
    ELSE Returned(None)

\* Both methods are called on an envelope with the meta given.
AskMore(meta, build) ==
  /\ input' = Some([meta |-> meta, build |-> build])
  /\ output' = Some([has_more |-> has_more(meta, build),
                      next_offset |-> next_offset(meta, build)])
  /\ UNCHANGED <<jwt, exchanges, pvars, cvars>>

NextMeta == input = None /\ \E meta \in EnvelopeMetas, build \in Builds : AskMore(meta, build)

SpecMeta == Init /\ [][NextMeta]_vars

\* ---------------------------------------------------------------- endless runs
\* The loop of list_all_* followed for as long as it runs, every fetch being
\* answered with a page. The items gathered are left out: the loop never
\* reads them back. output holds the build, input the latest answer with the
\* offset it was asked at.

\* `offset += page_size` on u32: the sum, or beyond u32::MAX a panic in a
\* build with overflow checks and the sum modulo 2^32 in a build without.
AddU32(a, b, build) ==
  IF a + b <= MaxU32 THEN Returned(a + b)
  ELSE IF build = "debug" THEN Panicked
  ELSE Returned((a + b) % (MaxU32 + 1))

\* Entry of list_all_* in a program built as build.
LiveEnter(o, ps, build) ==
  /\ pc = "idle"
  /\ pc' = "loop"
  /\ op' = o
  /\ page_size' = ps
  /\ offset' = 0
  /\ total' = None
  /\ output' = Some(build)
  /\ UNCHANGED <<jwt, exchanges, all_data, all_included, fetches, pages, result,
                 fault, server, cvars, input>>

LiveCall == \E o \in Ops, ps \in 0..MaxPageSize, build \in Builds : LiveEnter(o, ps, build)

\* Top of the loop: get_jwt returns a credential, after an exchange on the
\* first pass, and the request goes out.
LiveFetch ==
  /\ pc = "loop"
  /\ pc' = "await_page"
  /\ jwt' = IF CacheHit(jwt) THEN jwt ELSE Stored(jwt, 1)
  /\ exchanges' = IF CacheHit(jwt) THEN exchanges ELSE 1
  /\ UNCHANGED <<op, page_size, all_data, all_included, offset, total, fetches,
                 pages, result, fault, server, cvars, fvars>>

\* One pass of the loop body on the page resp.
LiveMerge(resp) ==
  LET tot == TrackTotal(total, resp)
      sum == AddU32(offset, page_size, Unwrap(output))
  IN /\ pc = "await_page"
     /\ total' = tot
     /\ input' = Some([resp |-> resp, offset |-> offset])
     /\ IF ShortPage(resp, page_size)
          THEN pc' = "done" /\ offset' = offset
          ELSE IF sum.panic
            THEN pc' = "panicked" /\ offset' = offset
            ELSE /\ offset' = Unwrap(sum.value)
                 /\ pc' = IF TotalReached(Unwrap(sum.value), tot) THEN "done" ELSE "loop"
     /\ UNCHANGED <<jwt, exchanges, op, page_size, all_data, all_included,
                    fetches, pages, result, fault, server, cvars, output>>

\* The server answers the request with any page.
LiveAnswer == \E resp \in Envelopes(1, offset, page_size, 0) : LiveMerge(resp)

NextLive == LiveCall \/ LiveFetch \/ LiveAnswer

\* Every request is sent and every request is answered.
SpecLive == Init /\ [][NextLive]_vars /\ WF_vars(LiveFetch) /\ WF_vars(LiveAnswer)

\* ---------------------------------------------------------------- properties
RECURSIVE ConcatData(_)
\* The data of the pages of the log ps, one after the other.
ConcatData(ps) == IF ps = <<>> THEN <<>> ELSE ps[1].data \o ConcatData(Tail(ps))

RECURSIVE ConcatIncluded(_)
\* The included of the pages of the log ps, one after the other.
ConcatIncluded(ps) ==
  IF ps = <<>> THEN <<>> ELSE ps[1].included \o ConcatIncluded(Tail(ps))

RECURSIVE SumLen(_)
\* Sum of the per-page data lengths of the log ps.
SumLen(ps) == IF ps = <<>> THEN 0 ELSE Len(ps[1].data) + SumLen(Tail(ps))

Running == pc \in {"loop", "await_auth", "await_page"}
IsShort(k) == Len(pages[k].data) < page_size
\* Every page received holds page_size items or fewer.
ExactOrShort == \A k \in 1..Len(pages) : Len(pages[k].data) <= page_size
\* The tracked total says the collection ends at or before the next offset.
TotalStops == IsSome(total) /\ Len(pages) * page_size >= Unwrap(total)
\* Every page received carries the total t in its meta.
StableTotal(t) ==
  \A k \in 1..Len(pages) :
    IsSome(pages[k].meta) /\ Unwrap(pages[k].meta).total = Some(t)

\* C1 as stated: with page_size >= 1 and pages that are all full but for a
\* short last one, a finished run has fetched up to and including the short
\* page, nothing follows a short page, and the merged data is as long as the
\* pages together.
C1_StopsOnlyAtShortPage ==
  (page_size >= 1 /\ server = None /\ ExactOrShort) =>
    /\ \A k \in 1..Len(pages) : IsShort(k) => k = Len(fetches)
    /\ pc = "done" =>
         /\ IsShort(Len(pages))
         /\ Len(Unwrap(result).data) = SumLen(pages)

\* C1 amended: the run fetches a prefix of the page sequence. It stops at the
\* short page, or earlier at the first full page after which the tracked
\* total is <= the next offset, and goes on otherwise; nothing is fetched
\* after a short page; the merged data is as long as the fetched pages
\* together.
C1_StopsAtShortPageOrTotal ==
  (page_size >= 1 /\ server = None /\ ExactOrShort) =>
    /\ \A k \in 1..Len(pages) : IsShort(k) => k = Len(fetches)
    /\ pc = "done" =>
         /\ Len(fetches) = Len(pages)
         /\ IsShort(Len(pages)) \/ TotalStops
         /\ Unwrap(result).ok
         /\ Len(Unwrap(result).data) = SumLen(pages)
    /\ (Running /\ pages # <<>>) => (~IsShort(Len(pages)) /\ ~TotalStops)

\* C1 witness: a three-page run of list_all_issues ended by its short page
\* while no total was tracked.
C1_Witness ==
  /\ pc = "done" /\ op = "list_all_issues" /\ page_size = 2
  /\ Len(pages) = 3 /\ total = None
  /\ Len(pages[1].data) = 2 /\ Len(pages[2].data) = 2 /\ Len(pages[3].data) = 1
  /\ Len(Unwrap(result).data) = 5

\* C2 as stated: with page_size >= 1 and the same total t in every page's
\* meta, no fetch is requested at an offset >= t (t = 0 included), and the
\* fetch at the first offset with offset + page_size >= t is the last one.
C2_NoFetchAtOrPastTotal ==
  \A t \in 0..(MaxTotal + 1) :
    (page_size >= 1 /\ server = None /\ pages # <<>> /\ StableTotal(t)) =>
      /\ \A k \in 1..Len(fetches) : fetches[k][1] < t
      /\ \A k \in 1..Len(pages) :
           fetches[k][1] + page_size >= t => (k = Len(fetches) /\ pc = "done")

\* C2 amended: with page_size >= 1 and the same total t in every page's meta,
\* the fetch at the first offset with offset + page_size >= t is the last one
\* (the run stops there, or earlier at a short page), and no fetch but the
\* first, at offset 0, is requested at an offset >= t: none at all for
\* t >= 1, exactly the one at offset 0 for t = 0.
C2_NoFetchPastTotalButFirst ==
  \A t \in 0..(MaxTotal + 1) :
    (page_size >= 1 /\ server = None /\ pages # <<>> /\ StableTotal(t)) =>
      /\ \A k \in 2..Len(fetches) : fetches[k][1] < t
      /\ fetches[1][1] = 0
      /\ t >= 1 => \A k \in 1..Len(fetches) : fetches[k][1] < t
      /\ t = 0 => (Len(fetches) = 1 /\ pc = "done")
      /\ \A k \in 1..Len(pages) :
           fetches[k][1] + page_size >= t => (k = Len(fetches) /\ pc = "done")
      /\ pc = "done" =>
           \/ IsShort(Len(pages))
           \/ fetches[Len(fetches)][1] + page_size >= t

\* C2 witness: three full pages of one item each, every meta saying total 3;
\* the run stops after the fetch at offset 2.
C2_Witness ==
  /\ pc = "done" /\ page_size = 1 /\ StableTotal(3)
  /\ fetches = <<(<<0, 1>>), (<<1, 1>>), (<<2, 1>>)>>
  /\ \A k \in 1..3 : Len(pages[k].data) = 1

\* Fetches a run over n items needs: max(1, ceil(n / page_size)).
Needed(n) ==
  IF n = 0 THEN 1 ELSE (n + page_size - 1) \div page_size

\* C3: against a server that holds the items 1..n in order, answers
\* (offset, limit) with the items offset+1 .. min(offset+limit, n) and
\* reports total n, a run with page_size >= 1 requests the offsets
\* 0, page_size, 2*page_size, ... with limit page_size, never more than
\* max(1, ceil(n / page_size)) of them, and returns exactly the items 1..n in
\* order after exactly that many fetches.
C3_FixedServerAllItemsOnce ==
  (page_size >= 1 /\ IsSome(server)) =>
    LET n == Unwrap(server) IN
      /\ \A k \in 1..Len(fetches) : fetches[k] = <<(k - 1) * page_size, page_size>>
      /\ Len(fetches) <= Needed(n)
      /\ pc = "loop" => Len(pages) < Needed(n)
      /\ pc = "done" =>
           /\ Unwrap(result).ok
           /\ Unwrap(result).data = [i \in 1..n |-> i]
           /\ Len(fetches) = Needed(n)
           /\ Len(pages) = Needed(n)

\* C3 witness: 5 items in pages of 2 arrive after fetches at 0, 2 and 4.
C3_Witness ==
  /\ pc = "done" /\ server = Some(5) /\ page_size = 2
  /\ fetches = <<(<<0, 2>>), (<<2, 2>>), (<<4, 2>>)>>
  /\ Unwrap(result).data = <<1, 2, 3, 4, 5>>

\* C4 as stated: every successful run of every list_all_* operation returns
\* as included the concatenation of the included of every page it fetched.
C4_IncludedIsConcatenation ==
  (pc = "done" /\ page_size >= 1 /\ server = None) =>
    Unwrap(result).included = ConcatIncluded(pages)

\* C5: a successful run returns as data exactly the data of the fetched
\* pages, in fetch order and in each page's own order; the items gathered so
\* far are that concatenation at every point of the run.
C5_DataIsConcatenation ==
  server = None =>
    /\ pc # "idle" => all_data = ConcatData(pages)
    /\ pc = "done" => (Unwrap(result).ok /\ Unwrap(result).data = ConcatData(pages))

\* C5 witness: a finished run of two non-empty pages.
C5_Witness ==
  /\ pc = "done" /\ server = None /\ Len(pages) = 2
  /\ Len(pages[1].data) = 2 /\ Len(pages[2].data) = 1
  /\ Unwrap(result).data = <<(<<"d", 1, 1>>), (<<"d", 1, 2>>), (<<"d", 2, 1>>)>>

\* C6: when a page fetch fails (its credential exchange or its request), the
\* call returns that very error and nothing else, the failed fetch was
\* requested once, and nothing is fetched afterwards.
C6_FetchErrorAbortsRun ==
  pc = "failed" =>
    /\ IsSome(fault)
    /\ result = Some([ok |-> FALSE, err |-> Unwrap(fault)])
    /\ Len(fetches) \in {Len(pages), Len(pages) + 1}
    /\ (page_size >= 1 =>
          \A k \in 1..Len(fetches) : fetches[k][1] = (k - 1) * page_size)
    /\ ~ENABLED Next

\* C6 witness: the third fetch fails after two pages were merged.
C6_Witness ==
  /\ pc = "failed" /\ Len(pages) = 2 /\ Len(fetches) = 3 /\ Len(all_data) >= 2
  /\ Unwrap(result).err = NotFoundError

\* C7 as stated: a call with page_size = 0 is rejected with InvalidArgument;
\* it sends no page fetch and does not loop.
C7_ZeroPageSizeRejected ==
  (page_size = 0 /\ pc # "idle") =>
    /\ fetches = <<>>
    /\ pc # "done"
    /\ pc = "failed" => Unwrap(result).err.kind = "InvalidArgument"

\* A step in which the get_jwt call of t returns.
GetJwtReturns(t) ==
  task[t].pc # "done" /\ task'[t].pc = "done" /\ task'[t].op = "get_jwt"

\* C8: a get_jwt call that finds the cache empty returns after exactly one
\* authentication exchange and, when the exchange succeeded, with the
\* credential it returns stored in the cache; a get_jwt call that finds a
\* credential in the cache returns that credential after no exchange and
\* leaves the cache alone.
C8_OneExchangeThenCached ==
  [][\A t \in Tasks :
       GetJwtReturns(t) =>
         LET c == task'[t] IN
           /\ c.seen = <<None>> =>
                /\ c.nex = 1
                /\ Unwrap(c.ret).ok => jwt' = Some(Unwrap(c.ret).jwt)
           /\ c.seen # <<None>> =>
                /\ c.nex = 0
                /\ c.ret = Some(OkJwt(Unwrap(Unwrap(c.seen))))
                /\ jwt' = jwt]_vars

\* C8 witness: after a single exchange, made by the first get_jwt call on
\* the empty cache, a later get_jwt call has returned the cached credential
\* without an exchange of its own.
C8_Witness ==
  /\ exchanges = 1 /\ calls >= 2 /\ jwt = Some(1)
  /\ \E t \in Tasks :
       /\ task[t].pc = "done" /\ task[t].op = "get_jwt" /\ task[t].afterOk
       /\ task[t].nex = 0 /\ task[t].ret = Some(OkJwt(1))

\* C9: a failed exchange returns an error and leaves the cache as it was, so
\* an empty cache stays empty; and a get_jwt call that finds the cache empty
\* sends a new exchange rather than returning.
C9_FailedExchangeCachesNothing ==
  [][\A t \in Tasks :
       /\ (task[t].pc = "auth_send" /\ task'[t].pc = "done") =>
            (~Unwrap(task'[t].ret).ok /\ jwt' = jwt)
       /\ (task[t].pc = "gj_check" /\ jwt = None /\ task'[t] # task[t]) =>
            /\ task'[t].pc = "auth_send"
            /\ exchanges' = exchanges + 1
            /\ task'[t].ret = None]_vars

\* C9 witness: an exchange has failed, the cache is empty, and a get_jwt call
\* started after the failure has sent a new exchange.
C9_Witness ==
  /\ anyFail /\ jwt = None
  /\ \E t \in Tasks :
       /\ task[t].pc = "auth_send" /\ task[t].op = "get_jwt"
       /\ task[t].afterFail /\ task[t].ex >= 2

\* C10: once a get_jwt call has returned Ok, the cache holds a credential,
\* and every get_jwt call started after that finds it there and returns Ok
\* without sending an exchange, whatever the other callers do meanwhile.
C10_AfterFirstSuccessNoExchange ==
  /\ anyOk => IsSome(jwt)
  /\ \A t \in Tasks :
       (task[t].op = "get_jwt" /\ task[t].afterOk) =>
         /\ task[t].seen # <<None>>
         /\ task[t].nex = 0
         /\ task[t].pc \in {"gj_read", "gj_check", "done"}
         /\ task[t].pc = "done" =>
              (Unwrap(task[t].ret).ok /\ task[t].seen # <<>>)

\* C10 witness: a get_jwt call started after an earlier one succeeded has
\* returned while another caller is in the middle of authenticate().
C10_Witness ==
  \E t, u \in Tasks :
    /\ t # u
    /\ task[t].op = "get_jwt" /\ task[t].afterOk /\ task[t].pc = "done"
    /\ task[u].pc \in {"auth_send", "auth_write", "auth_store"}

\* C11: the cache holds what the latest store wrote, nothing before the first
\* store and one credential after any number of racing get_jwt calls that
\* each made an exchange of their own; a get_jwt call that finds a credential
\* returns the one written last.
C11_LastWriteWins ==
  /\ [](jwt = lastWritten)
  /\ [][\A t \in Tasks :
          (GetJwtReturns(t) /\ task'[t].seen # <<None>>) =>
            /\ IsSome(lastWritten)
            /\ task'[t].ret = Some(OkJwt(Unwrap(lastWritten)))]_vars

\* C11 witness: two get_jwt calls raced on the empty cache and made one
\* exchange each; the credential of the first exchange was written last, and
\* a get_jwt call started after both had returned has returned it.
C11_Witness ==
  /\ exchanges = 2 /\ calls = 3 /\ lastWritten = Some(1) /\ jwt = Some(1)
  /\ \E t, u \in Tasks :
       /\ t # u
       /\ task[t].pc = "done" /\ task[t].op = "get_jwt"
       /\ task[t].seen = <<None>> /\ task[t].ret = Some(OkJwt(2))
       /\ task[u].pc = "done" /\ task[u].op = "get_jwt" /\ task[u].afterOk
       /\ task[u].nex = 0 /\ task[u].ret = Some(OkJwt(1))

\* A step in which t starts a call of authenticate().
AuthenticateStarts(t) ==
  calls' = calls + 1 /\ task'[t] # task[t] /\ task'[t].op = "authenticate"

\* A step in which the authenticate() call of t returns.
AuthenticateReturns(t) ==
  task[t].op = "authenticate" /\ task[t].pc # "done" /\ task'[t].pc = "done"

\* C12: a call of authenticate() sends an exchange whether the cache holds a
\* credential or not; when it returns Ok the cache holds the credential of
\* that exchange in place of what it held, and a get_jwt call that reads the
\* cache returns what the cache holds.
C12_AuthenticateReplaces ==
  [][\A t \in Tasks :
       /\ AuthenticateStarts(t) =>
            (exchanges' = exchanges + 1 /\ task'[t].ex = exchanges')
       /\ (AuthenticateReturns(t) /\ Unwrap(task'[t].ret).ok) =>
            /\ task'[t].ret = Some(OkJwt(task[t].ex))
            /\ jwt' = Some(task[t].ex)
            /\ jwt' # jwt
       /\ (task[t].pc = "gj_check" /\ IsSome(jwt) /\ task'[t] # task[t]) =>
            task'[t].ret = Some(OkJwt(Unwrap(jwt)))]_vars

\* C12 witness: authenticate() was called while the cache held credential 1,
\* made the second exchange and returned its credential, and a get_jwt call
\* after that has returned credential 2.
C12_Witness ==
  \E t, u \in Tasks :
    /\ t # u
    /\ task[t].pc = "done" /\ task[t].op = "authenticate" /\ task[t].afterOk
    /\ task[t].ex = 2 /\ task[t].ret = Some(OkJwt(2))
    /\ task[u].pc = "done" /\ task[u].op = "get_jwt"
    /\ task[u].seen = <<Some(2)>> /\ task[u].ret = Some(OkJwt(2))

\* C13: no step empties a cache that holds a credential, and a step in which
\* an exchange fails or a resource request returns leaves the cache as it
\* was.
C13_CacheNeverEmptied ==
  [][/\ IsSome(jwt) => IsSome(jwt')
     /\ \A t \in Tasks :
          /\ (task[t].pc = "auth_send" /\ task'[t].pc = "done") => jwt' = jwt
          /\ (task[t].op # "request" /\ task'[t].op = "request") =>
               jwt' = jwt]_vars

\* C13 witness: with a credential in the cache, an authenticate() call has
\* failed and a resource request has failed, and the credential is still
\* there.
C13_Witness ==
  /\ IsSome(jwt)
  /\ \E t, u \in Tasks :
       /\ t # u
       /\ task[t].pc = "done" /\ task[t].op = "authenticate"
       /\ task[t].afterOk /\ ~Unwrap(task[t].ret).ok
       /\ task[u].op = "request" /\ ~Unwrap(task[u].ret).ok

\* The response the latest authenticate() call got, and what it returned.
Resp == Unwrap(input)
Out == Unwrap(output)

\* C14: an exchange answered with a status outside 200..299 fails with
\* AuthFailed, and the message holds the status code and, for every body that
\* came through, the body.
C14_AuthFailedCarriesStatusAndBody ==
  (IsSome(input) /\ Resp.sent /\ ~IsSuccess(Resp.status)) =>
    /\ ~Out.ok
    /\ Out.err.kind = "AuthFailed"
    /\ Out.err.msg[2] = Resp.status
    /\ Resp.readable => Out.err.msg[4] = Resp.body

\* C14 witness: a 404 with a JSON object body has been answered to an
\* exchange, which failed with AuthFailed.
C14_Witness ==
  /\ IsSome(input) /\ Resp.sent /\ Resp.status = 404 /\ Resp.readable
  /\ Resp.body.kind = "object" /\ DOMAIN Resp.body.obj = {"jwt"}
  /\ ~Out.ok /\ Out.err.kind = "AuthFailed"

\* A success-status response whose body is not JSON, did not come through,
\* or is a JSON object other than one with the single string field jwt.
Malformed(resp) ==
  /\ resp.sent /\ IsSuccess(resp.status)
  /\ \/ ~resp.readable
     \/ resp.body.kind = "text"
     \/ /\ resp.body.kind = "object"
        /\ ~(DOMAIN resp.body.obj = {"jwt"} /\ resp.body.obj["jwt"][1] = "str")

\* C15 as stated: a success status with a malformed body fails with
\* AuthFailed, the kind a non-success status fails with.
C15_MalformedBodyIsAuthFailed ==
  (IsSome(input) /\ Malformed(Resp)) => (~Out.ok /\ Out.err.kind = "AuthFailed")

\* C15: a success status with a malformed body fails with Deserialize, which
\* is not the kind a non-success status fails with.
C15_MalformedBodyIsDeserialize ==
  (IsSome(input) /\ Malformed(Resp)) =>
    /\ ~Out.ok
    /\ Out.err = DeserializeError
    /\ Out.err.kind # AuthFailed(AuthFailedMessage(401, Resp.body)).kind

\* C15 witness: a 200 whose body is not JSON has been answered, with a
\* credential cached by an earlier exchange.
C15_Witness ==
  /\ IsSome(input) /\ Resp.sent /\ Resp.status = 200 /\ Resp.readable
  /\ Resp.body = TextBody("Unauthorized")
  /\ ~Out.ok /\ IsSome(jwt)

\* C16 as stated: a success-status response is accepted only when its body
\* is a JSON object with the field jwt and no other field; otherwise the call
\* fails, and the cache is left as it was.
C16_AcceptedOnlyJwtObject ==
  [][(IsSome(input') /\ input'[1].sent /\ IsSuccess(input'[1].status)
        /\ exchanges' = exchanges + 1) =>
       IF input'[1].body.kind = "object" /\ DOMAIN input'[1].body.obj = {"jwt"}
         THEN TRUE
         ELSE ~output'[1].ok /\ jwt' = jwt]_vars

\* The listing the resolver was applied to, and what it returned.
Listing == Unwrap(input)
Resolved == Unwrap(output)

\* The resource r has a string type and a string id.
HasKey(r) ==
  /\ "type" \in DOMAIN r.f /\ r.f["type"].t = "str"
  /\ "id" \in DOMAIN r.f /\ r.f["id"].t = "str"

\* The resource r has a string name among its attributes.
HasName(r) ==
  /\ "attributes" \in DOMAIN r.f /\ r.f["attributes"].t = "obj"
  /\ "name" \in DOMAIN r.f["attributes"].f
  /\ r.f["attributes"].f["name"].t = "str"

NameOf(r) == r.f["attributes"].f["name"].s

\* The relationships rel lead along severity / data / id to a string.
HasRelatedId(rel) ==
  /\ rel # None /\ rel[1].t = "obj"
  /\ "severity" \in DOMAIN rel[1].f /\ rel[1].f["severity"].t = "obj"
  /\ "data" \in DOMAIN rel[1].f["severity"].f
  /\ rel[1].f["severity"].f["data"].t = "obj"
  /\ "id" \in DOMAIN rel[1].f["severity"].f["data"].f
  /\ rel[1].f["severity"].f["data"].f["id"].t = "str"

RelatedId(rel) == rel[1].f["severity"].f["data"].f["id"].s

\* Positions of the resources of included indexed under the key k.
Keyed(included, k) ==
  {n \in 1..Len(included) :
     /\ HasKey(included[n])
     /\ included[n].f["type"].s \o <<":">> \o included[n].f["id"].s = k}

\* Positions of the resources of included with type t and id i.
Occurrences(included, t, i) ==
  {n \in 1..Len(included) :
     /\ HasKey(included[n])
     /\ included[n].f["type"].s = t /\ included[n].f["id"].s = i}

Last(S) == CHOOSE n \in S : \A m \in S : m <= n

\* C17: the resolver returns a name exactly when the relationships lead to a
\* string id, the index holds a resource under prefix:id, and that resource
\* has a string name; it returns "-" in every other case, among them absent
\* relationships, a path that ends early, an id that is no string, a key
\* the index lacks and a resource without a string name.
C17_FallbackUnlessEveryStepSucceeds ==
  IsSome(input) =>
    LET inc == Listing.included
        rel == Listing.relationships
        hits == IF HasRelatedId(rel)
                  THEN Keyed(inc, Listing.type_prefix \o <<":">> \o RelatedId(rel))
                  ELSE {}
    IN IF hits # {} /\ HasName(inc[Last(hits)])
         THEN Resolved.name = NameOf(inc[Last(hits)])
         ELSE Resolved.name = <<"-">>

\* C17 witness: the related id is a string and the index holds a resource
\* under its key, but the name of that resource is no string: "-".
C17_Witness ==
  /\ IsSome(input)
  /\ HasRelatedId(Listing.relationships)
  /\ Key(Listing.type_prefix, RelatedId(Listing.relationships))
       \in DOMAIN Resolved.index
  /\ ~HasName(Resolved.index[Key(Listing.type_prefix,
                                  RelatedId(Listing.relationships))])
  /\ Resolved.name = <<"-">>

\* C18 as stated: when a (type, id) occurs more than once in included, the
\* index keeps its last occurrence and resolving (type, id) gives the name of
\* that occurrence; and the index of included followed by itself is the
\* index of included.
C18_LastOccurrenceWins ==
  IsSome(input) =>
    LET inc == Listing.included IN
      /\ \A t \in Types, i \in Ids :
           LET occ == Occurrences(inc, t, i) IN
             Cardinality(occ) >= 2 =>
               /\ Resolved.index[Key(t, i)] = inc[Last(occ)]
               /\ (/\ Listing.type_prefix = t
                   /\ HasRelatedId(Listing.relationships)
                   /\ RelatedId(Listing.relationships) = i) =>
                    Resolved.name =
                      IF HasName(inc[Last(occ)]) THEN NameOf(inc[Last(occ)])
                                                 ELSE <<"-">>
      /\ build_included_map(inc \o inc) = Resolved.index

\* C19 as stated: every resource method answered with status 404 returns
\* NotFound, and answered with another non-success status returns Api with
\* that status.
C19_NotFoundOn404 ==
  (IsSome(input) /\ input[1].resp.sent /\ ~IsSuccess(input[1].resp.status)) =>
    output[1] = Failure(IF input[1].resp.status = 404
                          THEN NotFoundError
                          ELSE ApiError(input[1].resp.status))

RECURSIVE LatestTotal(_)
\* The total of the latest page of the log ps whose meta has one.
LatestTotal(ps) ==
  IF ps = <<>> THEN None
  ELSE LET m == ps[Len(ps)].meta
       IN IF IsSome(m) /\ IsSome(Unwrap(m).total)
            THEN Unwrap(m).total
            ELSE LatestTotal(SubSeq(ps, 1, Len(ps) - 1))

\* C20 as stated: in a run with page_size >= 1 the tracked total is the
\* total of the latest page fetched whose meta has a total; a page without
\* meta, or with a meta without total, leaves it as it was.
C20_TotalIsLatestReported == page_size >= 1 => total = LatestTotal(pages)

\* C21 as stated: every successful run with page_size >= 1 returns the meta
\* {offset: 0, limit: none, total: tracked total}, the total being absent when
\* none is tracked.
C21_MetaAlwaysSynthesized ==
  (pc = "done" /\ page_size >= 1) =>
    Unwrap(result).meta = Some([offset |-> Some(0), limit |-> None, total |-> total])

\* C21: a successful run returns the meta {offset: 0, limit: none, total: t}
\* when it tracks the total t at its end, whatever the metas of the pages,
\* and no meta at all when it tracks no total.
C21_MetaSynthesizedWhenTotalTracked ==
  pc = "done" =>
    /\ Unwrap(result).ok
    /\ IsSome(total) =>
         Unwrap(result).meta =
           Some([offset |-> Some(0), limit |-> None, total |-> total])
    /\ total = None => Unwrap(result).meta = None

\* C21 witness: a run of two pages has returned a meta with offset 0 and no
\* limit although its last page had the meta {offset: 1, limit: 1, total: 2}.
C21_Witness ==
  /\ pc = "done" /\ Len(pages) = 2 /\ page_size = 1
  /\ pages[2].meta = Some([offset |-> Some(1), limit |-> Some(1), total |-> Some(2)])
  /\ Unwrap(result).meta = Some([offset |-> Some(0), limit |-> None, total |-> Some(2)])

C23_OversizePagePassedThrough ==
  \A k \in 1..Len(pages) :
    Len(pages[k].data) > page_size =>
      /\ Len(all_data) = SumLen(pages)
      /\ SubSeq(all_data, SumLen(SubSeq(pages, 1, k - 1)) + 1,
                SumLen(SubSeq(pages, 1, k))) = pages[k].data
      /\ k < Len(fetches) => fetches[k + 1] = <<fetches[k][1] + page_size, page_size>>
      /\ (k = Len(pages) /\ k = Len(fetches)) =>
           /\ pc \in {"loop", "done"}
           /\ fault = None
           /\ offset = fetches[k][1] + page_size
           /\ pc = "done" => (IsSome(total) /\ offset >= Unwrap(total))

\* C23 witness: with page_size 2 the first page had 3 items, all merged, and
\* the second fetch has asked for offset 2.
C23_Witness ==
  /\ page_size = 2 /\ Len(pages) >= 1 /\ Len(pages[1].data) = 3
  /\ Len(fetches) >= 2 /\ fetches[2] = <<2, 2>>
  /\ SubSeq(all_data, 1, 3) = pages[1].data

\* C27: a page of fewer than page_size items is the last page fetched: the
\* run has returned with it and no fetch follows, whatever the tracked total.
C27_ShortPageEndsRun ==
  \A k \in 1..Len(pages) :
    IsShort(k) =>
      /\ k = Len(pages) /\ Len(fetches) = k
      /\ pc = "done"
      /\ Unwrap(result).ok /\ Unwrap(result).data = all_data

\* C27 witness: the run has returned at a short second page while the
\* tracked total says more items than were merged.
C27_Witness ==
  /\ pc = "done" /\ Len(pages) = 2 /\ IsShort(2)
  /\ IsSome(total) /\ Unwrap(total) > Len(all_data)

\* C29: a run on a fresh client makes one exchange at most and none after
\* its first fetch; fetches go out only with a credential in the cache, after
\* exactly one exchange; and a run whose exchange failed has returned the
\* error of the exchange with no fetch made and nothing cached.
C29_OneExchangeBeforeFirstFetch ==
  /\ exchanges <= 1
  /\ fetches # <<>> => (exchanges = 1 /\ jwt = Some(1))
  /\ pc = "await_auth" => (fetches = <<>> /\ jwt = None /\ exchanges = 1)
  /\ (pc = "failed" /\ pages = <<>> /\ fetches = <<>>) =>
       /\ jwt = None
       /\ Unwrap(fault) \in AuthErrors
       /\ result = Some(Failure(Unwrap(fault)))

\* C29 witness: three pages were fetched after a single exchange.
C29_Witness ==
  /\ Len(pages) = 3 /\ exchanges = 1 /\ jwt = Some(1) /\ pc = "done"

\* The task t holds a read guard / the write guard of the cache.
HoldsRead(t) == task[t].pc = "gj_check"
HoldsWrite(t) == task[t].pc = "auth_store"

\* C24: while a task holds the write guard no other task holds a read guard
\* or the write guard; and a credential returned by a get_jwt call is the
\* credential of an exchange that was sent and has been answered.
C24_ReadersWritersExclusive ==
  /\ \A t \in Tasks :
       /\ HoldsWrite(t) <=> wrHolder = Some(t)
       /\ HoldsRead(t) <=> t \in rdHolders
       /\ HoldsWrite(t) => \A u \in Tasks \ {t} : ~HoldsRead(u) /\ ~HoldsWrite(u)
  /\ \A t \in Tasks :
       (task[t].pc = "done" /\ task[t].op = "get_jwt" /\ Unwrap(task[t].ret).ok) =>
         /\ Unwrap(task[t].ret).jwt \in 1..exchanges
         /\ \A u \in Tasks :
              task[u].ex = Unwrap(task[t].ret).jwt => task[u].pc # "auth_send"

\* C24 witness: one task holds the write guard while another asks for a read
\* guard and has not got it.
C24_Witness ==
  \E t, u \in Tasks :
    /\ t # u
    /\ HoldsWrite(t) /\ wrHolder = Some(t)
    /\ task[u].pc = "gj_read" /\ rdHolders = {}

\* C30 as stated: two included resources with different (type, id) have
\* different keys, and a name the resolver returns is the name of a resource
\* whose type is the prefix asked for and whose id is the related id.
C30_KeysDistinguishResources ==
  IsSome(input) =>
    LET inc == Listing.included
        rel == Listing.relationships
    IN /\ \A m, n \in 1..Len(inc) :
            (/\ HasKey(inc[m]) /\ HasKey(inc[n])
             /\ <<inc[m].f["type"].s, inc[m].f["id"].s>> #
                  <<inc[n].f["type"].s, inc[n].f["id"].s>>) =>
              Key(inc[m].f["type"].s, inc[m].f["id"].s) #
                Key(inc[n].f["type"].s, inc[n].f["id"].s)
       /\ Resolved.name # <<"-">> =>
            LET r == Resolved.index[Key(Listing.type_prefix, RelatedId(rel))]
            IN /\ r.f["type"].s = Listing.type_prefix
               /\ r.f["id"].s = RelatedId(rel)

\* C25 as stated: has_more returns TRUE exactly when the meta is present
\* with offset, limit and total and offset + limit < total, FALSE otherwise;
\* next_offset returns Some(offset + limit) when has_more is TRUE and None
\* otherwise.
C25_HasMoreIffBelowTotal ==
  IsSome(input) =>
    LET meta == input[1].meta
        more == /\ meta # None
                /\ meta[1].offset # None /\ meta[1].limit # None
                /\ meta[1].total # None
                /\ meta[1].offset[1] + meta[1].limit[1] < meta[1].total[1]
    IN /\ output[1].has_more = Returned(more)
       /\ output[1].next_offset =
            Returned(IF more THEN Some(meta[1].offset[1] + meta[1].limit[1])
                             ELSE None)

\* The task t is inside a call of get_jwt or authenticate.
InCall(t) == task[t].pc \notin {"idle", "done"}

\* C28: a task that waits for a guard or for the answer to an exchange
\* holds no guard of the cache; and every call of get_jwt or authenticate
\* returns.
C28_NoGuardHeldWhileWaiting ==
  /\ [](\A t \in Tasks :
          task[t].pc \in {"gj_read", "auth_send", "auth_write"} =>
            (t \notin rdHolders /\ wrHolder # Some(t)))
  /\ \A t \in Tasks : InCall(t) ~> (task[t].pc = "done")

\* C28 witness: a task waits for the write guard, holding nothing, while
\* another task holds a read guard.
C28_Witness ==
  \E t, u \in Tasks :
    /\ t # u
    /\ task[t].pc = "auth_write" /\ t \notin rdHolders /\ wrHolder = None
    /\ task[u].pc = "gj_check" /\ rdHolders = {u}

\* C26 as stated: a run with page_size >= 1 whose fetches are all answered
\* comes to an end (a panic on offset overflow counted as an end).
C26_AlwaysReturns == (pc = "loop" /\ page_size >= 1) ~> (pc \in {"done", "panicked"})

\* The latest answer was a short page, or a full page after which the
\* tracked total is at most the next offset, the next offset being within
\* u32.
Signalled ==
  /\ IsSome(input) /\ page_size >= 1
  /\ \/ Len(input[1].resp.data) < page_size
     \/ /\ input[1].offset + page_size <= MaxU32
        /\ IsSome(total)
        /\ input[1].offset + page_size >= Unwrap(total)

\* C26: in a run with page_size >= 1 every fetch is sent and merged, and the
\* run returns at the first answer that is a short page or leaves the
\* tracked total at or below the next offset.
C26_ReturnsWhenServerSignals ==
  /\ [](Signalled => pc = "done")
  /\ (pc = "loop") ~> (pc = "await_page")
  /\ (pc = "await_page") ~> (pc # "await_page")

\* C26 witness: after two full pages without a total the run has returned
\* at a third page that reports the total 3.
C26_Witness ==
  /\ pc = "done" /\ page_size = 1 /\ offset = 3 /\ total = Some(3)
  /\ input[1].offset = 2 /\ Len(input[1].resp.data) = 1

====
